---- MODULE Spec2Model ----
(***************************************************************************)
(* Novel-Translator: the progressive glossary of src/translator.py.        *)
(*                                                                         *)
(* Strings are sequences of one-character strings, so that lower(),        *)
(* strip(), split(), the "in" substring test and str.count() are computed  *)
(* as Python computes them.  A dict is a sequence of [term, definition]    *)
(* records with pairwise different terms, in insertion order.  The         *)
(* glossary file is a sequence of lines; no string of the model holds a    *)
(* line break, so "\n".join() and split("\n") are the sequence itself.     *)
(***************************************************************************)
EXTENDS Naturals, Sequences, FiniteSets

\* ------------------------------------------------------------ strings

Upper == <<"A","B","C","D","E","F","G","H","I","J","K","L","M",
           "N","O","P","Q","R","S","T","U","V","W","X","Y","Z">>
LowerLetters == <<"a","b","c","d","e","f","g","h","i","j","k","l","m",
                  "n","o","p","q","r","s","t","u","v","w","x","y","z">>

LowerTable ==
  [c \in { Upper[i] : i \in 1..Len(Upper) } |->
     LowerLetters[CHOOSE i \in 1..Len(Upper) : Upper[i] = c]]

LowerChar(c) == IF c \in DOMAIN LowerTable THEN LowerTable[c] ELSE c

\* str.lower()
Lower(s) == [i \in 1..Len(s) |-> LowerChar(s[i])]

\* str.strip(): the model's only whitespace is the blank
RECURSIVE LStrip(_)
LStrip(s) == IF s # << >> /\ Head(s) = " " THEN LStrip(Tail(s)) ELSE s

RECURSIVE RStrip(_)
RStrip(s) ==
  IF s # << >> /\ s[Len(s)] = " " THEN RStrip(SubSeq(s, 1, Len(s) - 1)) ELSE s

Strip(s) == RStrip(LStrip(s))

\* c in s, for a character c
HasChar(s, c) == \E i \in 1..Len(s) : s[i] = c

FirstIndex(s, c) == CHOOSE i \in 1..Len(s) : s[i] = c /\ \A j \in 1..(i-1) : s[j] # c

\* s.split(c)[0]
BeforeFirst(s, c) == IF HasChar(s, c) THEN SubSeq(s, 1, FirstIndex(s, c) - 1) ELSE s

\* s.split(c, 1)[1], for s holding c
AfterFirst(s, c) == SubSeq(s, FirstIndex(s, c) + 1, Len(s))

\* sub occurs in s at position i
OccursAt(sub, s, i) ==
  /\ i + Len(sub) - 1 <= Len(s)
  /\ \A j \in 1..Len(sub) : s[i + j - 1] = sub[j]

\* sub in s (the empty string is in every string)
Contains(sub, s) == \E i \in 1..(Len(s) + 1) : OccursAt(sub, s, i)

\* s.count(sub): the occurrences that do not overlap, scanning from the left
RECURSIVE CountFrom(_, _, _)
CountFrom(sub, s, i) ==
  IF i + Len(sub) - 1 > Len(s) THEN 0
  ELSE IF OccursAt(sub, s, i)
       THEN 1 + CountFrom(sub, s, i + (IF Len(sub) = 0 THEN 1 ELSE Len(sub)))
       ELSE CountFrom(sub, s, i + 1)

Count(sub, s) == CountFrom(sub, s, 1)

\* ------------------------------------------------------------ constants

\* The three caps are the source's 1000, 10 and 10 scaled down so that a run
\* can exceed them; the source gives the strict cap the same value as the
\* non-strict one.  RETRY_ATTEMPTS has the source's value.
MAX_GLOSSARY_ENTRIES == 3
RETRY_ATTEMPTS == 3
MAX_NEW_TERMS_PER_CHAPTER == 2
MAX_NEW_TERMS_PER_CHAPTER_STRICT == 2

\* a part of the stoplist of translate_and_extract_terms and of
\* generate_initial_glossary (the two literals are equal)
excluded_terms == { <<"k","i","n","g">>, <<"i","n","n">>, <<"w","a","y">> }

\* ------------------------------------------------------------ dict

Entry(t, d) == [term |-> t, definition |-> d]

Keys(g) == { g[i].term : i \in 1..Len(g) }

KeyIndex(g, t) == CHOOSE i \in 1..Len(g) : g[i].term = t

\* g[t] = d: an existing key keeps its place and takes the new value, a new
\* key goes last
DictSet(g, t, d) ==
  IF t \in Keys(g)
  THEN [g EXCEPT ![KeyIndex(g, t)] = Entry(t, d)]
  ELSE Append(g, Entry(t, d))

\* dict(items), and g.update(items): the items set one after the other
RECURSIVE DictUpdate(_, _)
DictUpdate(g, items) ==
  IF items = << >> THEN g
  ELSE DictUpdate(DictSet(g, Head(items).term, Head(items).definition), Tail(items))

\* ------------------------------------------------------------ glossary file

\* f"{term}: {definition}"
FormatLine(e) == e.term \o <<":", " ">> \o e.definition

\* the lines _load_glossary keeps: not blank, and holding a colon
LineLoads(line) == Strip(line) # << >> /\ HasChar(line, ":")

\* term, definition = line.split(":", 1), both stripped
ParseLine(line) ==
  Entry(Strip(BeforeFirst(line, ":")), Strip(AfterFirst(line, ":")))

RECURSIVE LoadLines(_, _)
LoadLines(g, lines) ==
  IF lines = << >> THEN g
  ELSE LET line == Head(lines)
           e == ParseLine(line)
       IN LoadLines(IF LineLoads(line) THEN DictSet(g, e.term, e.definition) ELSE g,
                    Tail(lines))

\* Config._load_glossary: a missing file is the empty dict
LoadGlossary(f) == IF f.exists THEN LoadLines(<< >>, f.lines) ELSE << >>

\* whether read_text raises: it may on a file that exists
ReadFailures(f) == IF f.exists THEN BOOLEAN ELSE {FALSE}

\* mutants of LoadResult: a read that fails is not noticed; only the first
\* line of the file is read
LoadResultUnnoticed(f, failed) == LoadGlossary(f)

LoadResultFirstLine(f, failed) ==
  IF failed \/ ~ f.exists \/ f.lines = << >> THEN << >>
  ELSE LoadLines(<< >>, <<f.lines[1]>>)

\* what _load_glossary returns: the except branch returns the empty dict
LoadResult(f, failed) == IF failed THEN << >> ELSE LoadGlossary(f)

\* mutants of Truncate: no cut at all, and a cut that keeps the newest
TruncateNever(items) == items

TruncateKeepNewest(items) ==
  IF Len(items) > MAX_GLOSSARY_ENTRIES
  THEN SubSeq(items, Len(items) - MAX_GLOSSARY_ENTRIES + 1, Len(items))
  ELSE items

\* items[:MAX_GLOSSARY_ENTRIES]
Truncate(items) ==
  IF Len(items) > MAX_GLOSSARY_ENTRIES
  THEN SubSeq(items, 1, MAX_GLOSSARY_ENTRIES)
  ELSE items

\* the lines save_glossary writes
SaveLines(items) == [i \in 1..Len(items) |-> FormatLine(items[i])]

\* Config.get_glossary_text: nothing for an empty glossary, else the header,
\* one bullet per entry in the dict's order, the directive and an empty line;
\* the two fixed texts are kept whole, each as one symbol
GlossaryHeader == <<"CRITICAL TERMS GLOSSARY (maintain exact consistency):">>
GlossaryFooter ==
  <<"\n", "IMPORTANT: Use these exact name/term translations consistently. Do not change or translate names that appear in this glossary.">>

get_glossary_text(g) ==
  IF g = << >> THEN << >>
  ELSE <<GlossaryHeader>>
       \o [i \in 1..Len(g) |-> <<"-", " ">> \o FormatLine(g[i])]
       \o <<GlossaryFooter, << >> >>

\* ------------------------------------------------------------ term filter

\* term.split("[")[0].strip().lower() if "[" in term else term.lower()
BaseTerm(term) ==
  IF HasChar(term, "[") THEN Lower(Strip(BeforeFirst(term, "["))) ELSE Lower(term)

\* existing_lower = {k.lower(): k for k in existing_glossary.keys()}
ExistingLower(g) == { Lower(k) : k \in Keys(g) }

\* mutant of NotDuplicate: the two exact look-ups without the substring scan
NotDuplicateExactOnly(term, existing_lower) ==
  /\ Lower(term) \notin existing_lower
  /\ BaseTerm(term) \notin existing_lower

\* the test of lines 511-518 on a candidate that is not stoplisted
NotDuplicate(term, existing_lower) ==
  /\ Lower(term) \notin existing_lower
  /\ BaseTerm(term) \notin existing_lower
  /\ ~ \E existing \in existing_lower : Contains(BaseTerm(term), Lower(existing))

\* one item of new_glossary_terms, stripped
ItemOf(item) == Entry(Strip(item.term), Strip(item.definition))

\* mutant of Admits: the stoplist is not consulted
AdmitsStoplisted(item, existing) ==
  LET e == ItemOf(item)
  IN /\ e.term # << >>
     /\ e.definition # << >>
     /\ existing # << >> => NotDuplicate(e.term, ExistingLower(existing))

\* whether the loop of lines 492-534 appends the item to filtered_terms;
\* existing is the dict passed, << >> also standing for None
Admits(item, existing) ==
  LET e == ItemOf(item)
  IN /\ e.term # << >>
     /\ e.definition # << >>
     /\ BaseTerm(e.term) \notin excluded_terms
     /\ existing # << >> => NotDuplicate(e.term, ExistingLower(existing))

RECURSIVE FilterTerms(_, _)
FilterTerms(new_terms_array, existing) ==
  IF new_terms_array = << >> THEN << >>
  ELSE (IF Admits(Head(new_terms_array), existing)
        THEN <<ItemOf(Head(new_terms_array))>> ELSE << >>)
       \o FilterTerms(Tail(new_terms_array), existing)

MaxTerms(strict_mode) ==
  IF strict_mode THEN MAX_NEW_TERMS_PER_CHAPTER_STRICT ELSE MAX_NEW_TERMS_PER_CHAPTER

FirstN(s, n) == SubSeq(s, 1, IF Len(s) < n THEN Len(s) ELSE n)

\* new_terms of translate_and_extract_terms: filtered_terms[:max_terms] as a dict
NewTerms(new_terms_array, existing, strict_mode) ==
  DictUpdate(<< >>, FirstN(FilterTerms(new_terms_array, existing), MaxTerms(strict_mode)))

\* ------------------------------------------------------------ bootstrap

\* generate_glossary_from_text: the reply's lines as a dict; a line needs a
\* colon, a term and a definition
RECURSIVE ParseResponse(_, _)
ParseResponse(g, lines) ==
  IF lines = << >> THEN g
  ELSE LET line == Head(lines)
           e == ParseLine(line)
           keep == LineLoads(line) /\ e.term # << >> /\ e.definition # << >>
       IN ParseResponse(IF keep THEN DictSet(g, e.term, e.definition) ELSE g, Tail(lines))

\* base_term of line 775: not lower-cased, stripped only when bracketed
ScoreBase(term) == IF HasChar(term, "[") THEN Strip(BeforeFirst(term, "[")) ELSE term

\* count = text_lower.count(base_term.lower())
OccurrenceCount(term, text) == Count(Lower(ScoreBase(term)), Lower(text))

\* score = count * (2 if has_original else 1)
Score(term, text) == OccurrenceCount(term, text) * (IF HasChar(term, "[") THEN 2 ELSE 1)

\* list.sort(key=score, reverse=True): stable, the higher score first
RECURSIVE InsertByScore(_, _, _)
InsertByScore(sorted, e, text) ==
  IF sorted = << >> THEN <<e>>
  ELSE IF Score(Head(sorted).term, text) >= Score(e.term, text)
       THEN <<Head(sorted)>> \o InsertByScore(Tail(sorted), e, text)
       ELSE <<e>> \o sorted

RECURSIVE SortByScore(_, _, _)
SortByScore(sorted, items, text) ==
  IF items = << >> THEN sorted
  ELSE SortByScore(InsertByScore(sorted, Head(items), text), Tail(items), text)

\* the 20 of line 790, scaled down
MAX_INITIAL_TERMS == 2

\* mutant of KeepInitial: the occurrences are not looked at
KeepInitialUncounted(e, text) == BaseTerm(e.term) \notin excluded_terms

\* line 907
KeepInitial(e, text) ==
  /\ OccurrenceCount(e.term, text) >= 2 \/ HasChar(e.term, "[")
  /\ BaseTerm(e.term) \notin excluded_terms

RECURSIVE SelectInitial(_, _)
SelectInitial(items, text) ==
  IF items = << >> THEN << >>
  ELSE (IF KeepInitial(Head(items), text) THEN <<Head(items)>> ELSE << >>)
       \o SelectInitial(Tail(items), text)

\* filtered_glossary of generate_initial_glossary
FilteredGlossary(initial_glossary, text) ==
  DictUpdate(<< >>,
    SelectInitial(FirstN(SortByScore(<< >>, initial_glossary, text), MAX_INITIAL_TERMS),
                  text))

\* ------------------------------------------------------------ inputs

\* bounds of the model
NumChapters == 2
MaxBatch == 2
MaxResponse == 2
MaxFilterBatch == 3
MaxSaveFailures == 1

Mira == <<"M","i","r","a">>
MiraOrig == <<"M","i","r","a"," ","[","m","]">>
MiraCaps == <<"M","I","R","A">>
MiraSol == <<"M","i","r","a"," ","S">>
King == <<"K","i","n","g">>
KingOrig == <<"K","i","n","g"," ","[","k","]">>
ReZero == <<"R","e",":","Z">>
Bo == <<"B","o">>
Al == <<"A","l">>
Cy == <<"C","y">>
DefP == <<"p">>
DefQ == <<"q">>

\* the raw chapters, in the order of txt_files
Digits == <<"1","2","3","4","5","6","7","8","9">>

\* the characters of the model, in the order of their code points
CodePoints ==
  <<" ", ".", "0">> \o Digits \o <<":">> \o Upper \o <<"[", "]">> \o LowerLetters
CodePoint(c) == CHOOSE i \in 1..Len(CodePoints) : CodePoints[i] = c

\* a < b as Python compares two str, and two Path of one folder
RECURSIVE StrLess(_, _)
StrLess(a, b) ==
  IF b = << >> THEN FALSE
  ELSE IF a = << >> THEN TRUE
  ELSE IF Head(a) = Head(b) THEN StrLess(Tail(a), Tail(b))
  ELSE CodePoint(Head(a)) < CodePoint(Head(b))

\* the *.txt names of the raw folder, as glob finds them
RawNames ==
  << <<"2",".","t","x","t">>, <<"1","0",".","t","x","t">>,
     <<"3",".","t","x","t">>, <<"1",".","t","x","t">> >>
raw_folder == SubSeq(RawNames, 1, NumChapters)

\* sorted(): the smaller name first
RECURSIVE InsertSorted(_, _)
InsertSorted(sorted, name) ==
  IF sorted = << >> THEN <<name>>
  ELSE IF StrLess(name, Head(sorted)) THEN <<name>> \o sorted
  ELSE <<Head(sorted)>> \o InsertSorted(Tail(sorted), name)

RECURSIVE Sorted(_)
Sorted(names) ==
  IF names = << >> THEN << >>
  ELSE InsertSorted(Sorted(SubSeq(names, 1, Len(names) - 1)), names[Len(names)])

\* txt_files = sorted(cfg.raw_folder.glob("*.txt"))
txt_files == Sorted(raw_folder)

ChapterName(i) == txt_files[i]

ChapterContent(i) ==
  IF i = 1
  THEN <<"m","i","r","a"," ","s"," ","M","i","r","a"," ","b","o"," ",
         "k","i","n","g"," ","K","i","n","g">>
  ELSE <<"b","o"," ","a","l">>

\* GLOSSARY_INIT_CHAPTERS is 5: every chapter of the model is an initial one
RECURSIVE CombinedText(_)
CombinedText(n) ==
  IF n = 0 THEN << >>
  ELSE CombinedText(n - 1)
       \o <<"\n","\n","-","-","-"," ">> \o ChapterName(n)
       \o <<" ","-","-","-","\n">> \o ChapterContent(n)

RECURSIVE SeqsUpTo(_, _)
SeqsUpTo(S, n) ==
  IF n = 0 THEN { << >> }
  ELSE LET shorter == SeqsUpTo(S, n - 1)
       IN shorter \cup { Append(q, x) : q \in shorter, x \in S }

\* what the model may propose for a chapter (the items of new_glossary_terms)
CandPool == { Entry(MiraOrig, DefP), Entry(MiraSol, DefP), Entry(KingOrig, DefP) }

\* the candidates of the one-chapter specification: also another casing, a
\* stoplisted word without brackets, a colon in the term, an unrelated term,
\* a blank term
FilterPool ==
  CandPool \cup { Entry(MiraCaps, DefQ), Entry(King, DefP), Entry(ReZero, DefP),
                  Entry(Bo, DefP), Entry(<<" ">>, DefP) }

\* the lines the model may answer to the glossary request
ResponsePool ==
  { MiraOrig \o <<":"," ">> \o DefP,
    Mira \o <<":"," ">> \o DefQ,
    King \o <<":"," ">> \o DefP }

NoFile == [exists |-> FALSE, lines |-> << >>]
FileOf(lines) == [exists |-> TRUE, lines |-> lines]

\* glossary.txt as the run finds it: missing; with lines that have no colon,
\* no term or no definition; with more entries than the cap
FilePool ==
  { NoFile,
    FileOf(<< Bo \o <<":"," ">> \o DefP, <<"x">>, <<":"," ","p">>, <<"A","l",":">>, << >> >>),
    FileOf(<< King \o <<":"," ">> \o DefP, Bo \o <<":"," ">> \o DefP,
              Al \o <<":"," ">> \o DefP, Cy \o <<":"," ">> \o DefP >>) }

\* what main() may find: each of the three may be missing
ConfigPool == [novel_directory : BOOLEAN, api_key : BOOLEAN, raw_folder : BOOLEAN]
ConfigFound == [novel_directory |-> TRUE, api_key |-> TRUE, raw_folder |-> TRUE]

ArgsSet ==
  [regenerate_glossary : BOOLEAN, no_glossary : BOOLEAN,
   skip_glossary_review : BOOLEAN, strict_glossary : BOOLEAN]

\* ------------------------------------------------------------ state

VARIABLES
  pc,                \* where main() is
  args,              \* the command line's flags
  glossary,          \* cfg.glossary
  file,              \* glossary.txt
  idx,               \* the place of txt_file in txt_files
  dest,              \* the chapters whose translated file exists
  glossary_text,     \* the text handed to the chapter's translate call
  existing_glossary, \* the dict handed to it (<< >> also for None)
  new_terms_array,   \* the candidates of its reply
  new_terms,         \* what it returned; the four are << >> between chapters
  saved,             \* whether the last step ran save_glossary: "no", "ok", "failed"
  preSave,           \* the dict that save_glossary found, << >> when saved = "no"
  expected,          \* the loop's entry store with the accepted terms applied in order
  cleanStart,        \* whether the loaded store had no duplicate or contained base term
  failures,          \* the writes of glossary.txt that have failed
  attempts,          \* how each generate_content call of the chapter's translate call
                     \* ended, until the call returns or the chapter is left
  delays,            \* the time.sleep(RETRY_DELAY) calls of that translate call
  outcome,           \* what the loop did with each chapter
  partial,           \* the chapters whose translated file an interrupt cut short
  user_input,        \* the last answer to the review question, "none" outside the review
  config,            \* what main() finds: the novel directory, an API key, the raw folder
  load_failed,       \* whether the last _load_glossary ended in its except branch,
                     \* FALSE once the chapters are listed
  initial_glossary,  \* generate_initial_glossary: the candidates of the reply
  filtered_glossary, \* generate_initial_glossary: what it merges; both << >> outside it
  original_glossary, \* cleanup_glossary.py: the glossary as loaded
  cleaned,           \* cleanup_glossary.py: cleaned_glossary
  removed_terms      \* cleanup_glossary.py: the lines reported as removed

vars == <<pc, args, glossary, file, idx, dest, glossary_text, existing_glossary,
          new_terms_array, new_terms, saved, preSave, expected, cleanStart, failures,
          attempts, delays, outcome, partial, user_input, config, load_failed,
          initial_glossary, filtered_glossary, original_glossary, cleaned,
          removed_terms>>

\* the state of cleanup_glossary.py, which translator.py never touches
cleanup_vars == <<original_glossary, cleaned, removed_terms>>

\* the locals of generate_initial_glossary
initial_vars == <<initial_glossary, filtered_glossary>>

Chapters == 1..NumChapters

GLOSSARY_INIT_CHAPTERS == 5

InitChapters == IF NumChapters < GLOSSARY_INIT_CHAPTERS THEN NumChapters ELSE GLOSSARY_INIT_CHAPTERS

\* the base terms of a store, one per entry
Bases(g) == [i \in 1..Len(g) |-> BaseTerm(g[i].term)]

\* no two entries with the same base term, none contained in another's
NoDuplicateBase(g) ==
  \A i, j \in 1..Len(g) : i # j => ~ Contains(Bases(g)[i], Bases(g)[j])

\* save_glossary: the dict is cut before the write, the write may fail
SavedFile(g, f, ok) == IF ok THEN FileOf(SaveLines(Truncate(g))) ELSE f

\* the outcomes of a write of glossary.txt: it fails at most MaxSaveFailures
\* times in a run
WriteOutcomes == IF failures < MaxSaveFailures THEN BOOLEAN ELSE {TRUE}

\* the accepted terms applied to a store, stated on its own: the entries stay
\* where they are, the new terms follow in their order, the first
\* MAX_GLOSSARY_ENTRIES are kept
RECURSIVE FreshOf(_, _)
FreshOf(accepted, g) ==
  IF accepted = << >> THEN << >>
  ELSE (IF Head(accepted).term \in Keys(g) THEN << >> ELSE <<Head(accepted)>>)
       \o FreshOf(Tail(accepted), g)

ExpectedAfter(g, accepted) ==
  FirstN([i \in 1..Len(g) |->
            IF \E k \in 1..Len(accepted) : accepted[k].term = g[i].term
            THEN accepted[CHOOSE k \in 1..Len(accepted) : accepted[k].term = g[i].term]
            ELSE g[i]]
         \o FreshOf(accepted, g), MAX_GLOSSARY_ENTRIES)

\* the translated folder as a run may find it: empty, holding the first
\* chapter, holding every chapter
DestPool == { {}, {1}, Chapters }

Init ==
  /\ pc = "start"
  /\ args \in ArgsSet
  /\ file \in FilePool
  /\ dest \in DestPool
  /\ glossary = << >>
  /\ idx = 1
  /\ glossary_text = << >>
  /\ existing_glossary = << >>
  /\ new_terms_array = << >>
  /\ new_terms = << >>
  /\ saved = "no"
  /\ preSave = << >>
  /\ expected = << >>
  /\ cleanStart = TRUE
  /\ failures = 0
  /\ attempts = << >>
  /\ delays = 0
  /\ outcome = [c \in Chapters |-> "pending"]
  /\ partial = {}
  /\ user_input = "none"
  /\ config \in ConfigPool
  /\ load_failed = FALSE
  /\ initial_glossary = << >>
  /\ filtered_glossary = << >>
  /\ original_glossary = << >>
  /\ cleaned = << >>
  /\ removed_terms = << >>

\* lines 661-664: novel_root is not a directory, sys.exit(1)
NovelDirMissing ==
  /\ pc = "start"
  /\ ~ config.novel_directory
  /\ pc' = "abort"
  /\ UNCHANGED <<args, glossary, file, idx, dest, glossary_text, existing_glossary,
                 new_terms_array, new_terms, saved, preSave, expected, cleanStart,
                 failures, attempts, delays, outcome, partial, user_input, config,
                 load_failed, initial_vars, cleanup_vars>>

\* Config._resolve_api_key: no key on the command line or in config.json,
\* sys.exit(1)
ApiKeyMissing ==
  /\ pc = "start"
  /\ config.novel_directory
  /\ ~ config.api_key
  /\ pc' = "abort"
  /\ UNCHANGED <<args, glossary, file, idx, dest, glossary_text, existing_glossary,
                 new_terms_array, new_terms, saved, preSave, expected, cleanStart,
                 failures, attempts, delays, outcome, partial, user_input, config,
                 load_failed, initial_vars, cleanup_vars>>

\* Config._setup_glossary, the last step of Config.__init__
Setup ==
  /\ pc = "start"
  /\ config.novel_directory
  /\ config.api_key
  /\ \E failed \in ReadFailures(file) :
       /\ load_failed' = failed
       /\ glossary' = LoadResult(file, failed)
  /\ expected' = glossary'
  /\ cleanStart' = NoDuplicateBase(glossary')
  /\ pc' = "folders"
  /\ saved' = "no"
  /\ preSave' = << >>
  /\ UNCHANGED <<args, file, idx, dest, glossary_text, existing_glossary,
                 new_terms_array, new_terms, failures, attempts, delays, outcome,
                 partial, user_input, config, initial_vars, cleanup_vars>>

\* mutant of RawFolderMissing: the run goes on without the raw folder
RawFolderIgnored ==
  /\ pc = "folders"
  /\ ~ config.raw_folder
  /\ pc' = "init_glossary"
  /\ UNCHANGED <<args, glossary, file, idx, dest, glossary_text, existing_glossary,
                 new_terms_array, new_terms, saved, preSave, expected, cleanStart,
                 failures, attempts, delays, outcome, partial, user_input, config,
                 load_failed, initial_vars, cleanup_vars>>

\* lines 670-672: cfg.raw_folder is not a directory, sys.exit(1)
RawFolderMissing ==
  /\ pc = "folders"
  /\ ~ config.raw_folder
  /\ pc' = "abort"
  /\ UNCHANGED <<args, glossary, file, idx, dest, glossary_text, existing_glossary,
                 new_terms_array, new_terms, saved, preSave, expected, cleanStart,
                 failures, attempts, delays, outcome, partial, user_input, config,
                 load_failed, initial_vars, cleanup_vars>>

\* lines 670-676: the raw folder is there, the translated folder is made
FoldersReady ==
  /\ pc = "folders"
  /\ config.raw_folder
  /\ pc' = "init_glossary"
  /\ UNCHANGED <<args, glossary, file, idx, dest, glossary_text, existing_glossary,
                 new_terms_array, new_terms, saved, preSave, expected, cleanStart,
                 failures, attempts, delays, outcome, partial, user_input, config,
                 load_failed, initial_vars, cleanup_vars>>

\* line 679
WantsInitialGlossary ==
  args.regenerate_glossary \/ (glossary = << >> /\ ~ args.no_glossary)

\* neither regeneration nor an empty glossary: straight to the chapters
NoInitialGlossary ==
  /\ UNCHANGED <<config, load_failed, initial_vars, cleanup_vars>>
  /\ pc = "init_glossary"
  /\ ~ WantsInitialGlossary
  /\ pc' = "files"
  /\ UNCHANGED <<args, glossary, file, idx, dest, glossary_text, existing_glossary,
                 new_terms_array, new_terms, saved, preSave, expected, cleanStart,
                 failures, attempts, delays, outcome, partial, user_input>>

\* generate_glossary_from_text raises, main logs the warning and goes on
GenerateFails ==
  /\ UNCHANGED <<config, load_failed, initial_vars, cleanup_vars>>
  /\ pc = "init_glossary"
  /\ WantsInitialGlossary
  /\ pc' = "files"
  /\ UNCHANGED <<args, glossary, file, idx, dest, glossary_text, existing_glossary,
                 new_terms_array, new_terms, saved, preSave, expected, cleanStart,
                 failures, attempts, delays, outcome, partial, user_input>>

\* the text of the initial chapters, and the replies to the glossary request
combined_text == CombinedText(InitChapters)
Responses == SeqsUpTo(ResponsePool, MaxResponse)

\* cfg.save_glossary() on the dict g: the dict is cut, the file is written
\* unless the write fails
SaveGlossary(g, ok) ==
  /\ glossary' = Truncate(g)
  /\ file' = SavedFile(g, file, ok)
  /\ saved' = IF ok THEN "ok" ELSE "failed"
  /\ preSave' = g
  /\ failures' = IF ok THEN failures ELSE failures + 1

\* generate_initial_glossary up to the review
GenerateInitial(responses) ==
  /\ pc = "init_glossary"
  /\ WantsInitialGlossary
  /\ \E response \in responses :
       /\ initial_glossary' = ParseResponse(<< >>, response)
       /\ IF initial_glossary' = << >>
          THEN /\ filtered_glossary' = << >>
               /\ pc' = "files"
               /\ UNCHANGED <<glossary, file, saved, preSave, expected, failures>>
          ELSE /\ filtered_glossary' = FilteredGlossary(initial_glossary', combined_text)
               /\ \E ok \in WriteOutcomes :
                    SaveGlossary(DictUpdate(glossary, filtered_glossary'), ok)
               /\ expected' = glossary'
               /\ pc' = IF args.skip_glossary_review THEN "files" ELSE "review"
  /\ UNCHANGED <<args, idx, dest, glossary_text, existing_glossary,
                 new_terms_array, new_terms, cleanStart, attempts, delays, outcome,
                 partial, user_input, config, load_failed, cleanup_vars>>

GenerateInitialGlossary == GenerateInitial(Responses)

\* the operator answers y: the glossary is read again from the file
ReviewYes ==
  /\ pc = "review"
  /\ user_input' = "y"
  /\ \E failed \in ReadFailures(file) :
       /\ load_failed' = failed
       /\ glossary' = LoadResult(file, failed)
  /\ expected' = glossary'
  /\ pc' = "files"
  /\ saved' = "no"
  /\ preSave' = << >>
  /\ UNCHANGED <<args, file, idx, dest, glossary_text, existing_glossary,
                 new_terms_array, new_terms, cleanStart, failures, attempts, delays,
                 outcome, partial, config, initial_vars, cleanup_vars>>

\* the operator answers n: sys.exit(0)
ReviewNo ==
  /\ UNCHANGED <<config, load_failed, initial_vars, cleanup_vars>>
  /\ pc = "review"
  /\ user_input' = "n"
  /\ pc' = "exit"
  /\ saved' = "no"
  /\ preSave' = << >>
  /\ UNCHANGED <<args, glossary, file, idx, dest, glossary_text, existing_glossary,
                 new_terms_array, new_terms, expected, cleanStart, failures, attempts,
                 delays, outcome, partial>>

\* any other answer: the question is asked again
ReviewOther ==
  /\ UNCHANGED <<config, load_failed, initial_vars, cleanup_vars>>
  /\ pc = "review"
  /\ user_input' = "other"
  /\ UNCHANGED <<pc, args, glossary, file, idx, dest, glossary_text, existing_glossary,
                 new_terms_array, new_terms, saved, preSave, expected, cleanStart,
                 failures, attempts, delays, outcome, partial>>

\* input() raises (EOFError on a closed stdin): the exception leaves
\* generate_initial_glossary, main logs the warning of line 684 and goes on
\* with the dict as the bootstrap left it
ReviewUnread ==
  /\ UNCHANGED <<config, load_failed, initial_vars, cleanup_vars>>
  /\ pc = "review"
  /\ user_input' = "unread"
  /\ pc' = "files"
  /\ saved' = "no"
  /\ preSave' = << >>
  /\ UNCHANGED <<args, glossary, file, idx, dest, glossary_text, existing_glossary,
                 new_terms_array, new_terms, expected, cleanStart, failures, attempts,
                 delays, outcome, partial>>

\* lines 687-692: the chapters are listed and sorted; without any, main returns
ListFiles ==
  /\ initial_glossary' = << >>
  /\ filtered_glossary' = << >>
  /\ load_failed' = FALSE
  /\ UNCHANGED <<config, cleanup_vars>>
  /\ pc = "files"
  /\ pc' = IF txt_files = << >> THEN "done" ELSE "loop"
  /\ user_input' = "none"
  /\ saved' = "no"
  /\ preSave' = << >>
  /\ UNCHANGED <<args, glossary, file, idx, dest, glossary_text, existing_glossary,
                 new_terms_array, new_terms, expected, cleanStart, failures, attempts,
                 delays, outcome, partial>>

\* mutant of dest_file_exists: no translated file is ever found
dest_file_never_exists == FALSE

\* dest_file.exists()
dest_file_exists == idx \in dest

\* the chapter's translated file exists
SkipChapter ==
  /\ UNCHANGED <<config, load_failed, initial_vars, cleanup_vars>>
  /\ pc = "loop"
  /\ idx \in Chapters
  /\ dest_file_exists
  /\ idx' = idx + 1
  /\ outcome' = [outcome EXCEPT ![idx] = "skipped"]
  /\ saved' = "no"
  /\ preSave' = << >>
  /\ UNCHANGED <<pc, args, glossary, file, dest, glossary_text, existing_glossary,
                 new_terms_array, new_terms, expected, cleanStart, failures, attempts,
                 delays, partial, user_input>>

\* the chapter at idx is to be translated and the retry loop of
\* translate_and_extract_terms has an attempt left
CallDue ==
  /\ pc = "loop"
  /\ idx \in Chapters
  /\ ~ dest_file_exists
  /\ Len(attempts) < RETRY_ATTEMPTS

\* lines 371-372: an attempt's generate_content returns a reply that parses
CallReturns ==
  /\ UNCHANGED <<config, load_failed, initial_vars, cleanup_vars>>
  /\ CallDue
  /\ attempts' = Append(attempts, "ok")
  /\ pc' = "reply"
  /\ UNCHANGED <<args, glossary, file, idx, dest, glossary_text, existing_glossary,
                 new_terms_array, new_terms, saved, preSave, expected, cleanStart,
                 failures, delays, outcome, partial, user_input>>

\* lines 706-715 and 374-550, the call returning: the candidates of the reply
\* are one of batches; the loop's counters are dead
Translate(batches) ==
  /\ UNCHANGED <<config, load_failed, initial_vars, cleanup_vars>>
  /\ pc = "reply"
  /\ \E reply \in batches :
       /\ new_terms_array' = reply
       /\ glossary_text' = IF args.no_glossary THEN << >> ELSE get_glossary_text(glossary)
       /\ existing_glossary' = IF args.no_glossary THEN << >> ELSE glossary
       /\ new_terms' = NewTerms(reply, existing_glossary', args.strict_glossary)
  /\ attempts' = << >>
  /\ delays' = 0
  /\ pc' = "write"
  /\ saved' = "no"
  /\ preSave' = << >>
  /\ UNCHANGED <<args, glossary, file, idx, dest, expected, cleanStart, failures,
                 outcome, partial, user_input>>

\* mutants of ChapterFails: the failed chapter's translated file is written
\* all the same; the failure ends the run
ChapterFailsWithOutput(tries, slept) ==
  /\ pc' = "next"
  /\ attempts' = tries
  /\ delays' = slept
  /\ outcome' = [outcome EXCEPT ![idx] = "failed"]
  /\ dest' = dest \cup {idx}
  /\ saved' = "no"
  /\ preSave' = << >>
  /\ UNCHANGED <<args, glossary, file, idx, glossary_text, existing_glossary,
                 new_terms_array, new_terms, expected, cleanStart, failures, partial,
                 user_input>>

ChapterFailsEndsRun(tries, slept) ==
  /\ pc' = "exit"
  /\ attempts' = tries
  /\ delays' = slept
  /\ outcome' = [outcome EXCEPT ![idx] = "failed"]
  /\ saved' = "no"
  /\ preSave' = << >>
  /\ UNCHANGED <<args, glossary, file, idx, dest, glossary_text, existing_glossary,
                 new_terms_array, new_terms, expected, cleanStart, failures, partial,
                 user_input>>

\* lines 727-730: the exception of the chapter is logged and the loop goes on
\* with the next file; tries and slept are the calls and the delays made
ChapterFails(tries, slept) ==
  /\ pc' = "next"
  /\ attempts' = tries
  /\ delays' = slept
  /\ outcome' = [outcome EXCEPT ![idx] = "failed"]
  /\ saved' = "no"
  /\ preSave' = << >>
  /\ UNCHANGED <<args, glossary, file, idx, dest, glossary_text, existing_glossary,
                 new_terms_array, new_terms, expected, cleanStart, failures, partial,
                 user_input>>

\* mutants of Sleeps: a delay after every failed attempt; no delay at all
SleepsAlways(attempt) == TRUE

SleepsNever(attempt) == FALSE

\* if attempt < RETRY_ATTEMPTS: time.sleep(RETRY_DELAY)
Sleeps(attempt) == attempt < RETRY_ATTEMPTS

\* mutant of Breaks: no error leaves the retry loop
BreaksNever(kind) == FALSE

\* the except branch of the error: "transient" is a JSONDecodeError or an
\* InternalServerError (lines 552-561, the two branches are alike), "other"
\* any other Exception, which breaks out of the loop
Breaks(kind) == kind = "other"

\* for attempt in range(1, RETRY_ATTEMPTS + 1): attempt is the last one
LastAttempt(attempt) == attempt = RETRY_ATTEMPTS

\* one attempt of the call ends in an error of the kind: a delay and the next
\* attempt, or RuntimeError out of translate_and_extract_terms
AttemptFails(kind) ==
  /\ UNCHANGED <<config, load_failed, initial_vars, cleanup_vars>>
  /\ CallDue
  /\ LET tries == Append(attempts, kind)
         attempt == Len(tries)
         slept == IF ~ Breaks(kind) /\ Sleeps(attempt) THEN delays + 1 ELSE delays
     IN IF Breaks(kind) \/ LastAttempt(attempt)
        THEN ChapterFails(tries, slept)
        ELSE /\ attempts' = tries
             /\ delays' = slept
             /\ UNCHANGED <<pc, args, glossary, file, idx, dest, glossary_text,
                            existing_glossary, new_terms_array, new_terms, saved,
                            preSave, expected, cleanStart, failures, outcome, partial,
                            user_input>>

TransientFailure == AttemptFails("transient")

NonTransientFailure == AttemptFails("other")

\* txt_file.read_text raises: the chapter fails before any call
ReadFails ==
  /\ UNCHANGED <<config, load_failed, initial_vars, cleanup_vars>>
  /\ CallDue
  /\ attempts = << >>
  /\ ChapterFails(<< >>, 0)

\* mutant of HasNewTerms: the glossary is saved after every translated chapter
HasNewTermsAlways == ~ args.no_glossary

\* line 720
HasNewTerms == ~ args.no_glossary /\ new_terms # << >>

\* dest_file.write_text, then on to the glossary or to the next chapter
WriteDest ==
  /\ UNCHANGED <<config, load_failed, initial_vars, cleanup_vars>>
  /\ pc = "write"
  /\ dest' = dest \cup {idx}
  /\ outcome' = [outcome EXCEPT ![idx] = "translated"]
  /\ pc' = IF HasNewTerms THEN "merge" ELSE "next"
  /\ UNCHANGED <<args, glossary, file, idx, glossary_text, existing_glossary,
                 new_terms_array, new_terms, saved, preSave, expected, cleanStart,
                 failures, attempts, delays, partial, user_input>>

\* dest_file.write_text raises: the error is logged, the chapter's terms are
\* dropped, the loop goes on
WriteDestFails ==
  /\ UNCHANGED <<config, load_failed, initial_vars, cleanup_vars>>
  /\ pc = "write"
  /\ pc' = "next"
  /\ outcome' = [outcome EXCEPT ![idx] = "failed"]
  /\ UNCHANGED <<args, glossary, file, idx, dest, glossary_text, existing_glossary,
                 new_terms_array, new_terms, saved, preSave, expected, cleanStart,
                 failures, attempts, delays, partial, user_input>>

\* mutant of Merged: the accepted terms never reach the dict
MergedNothing(g, accepted) == g

\* cfg.glossary.update(new_terms)
Merged(g, accepted) == DictUpdate(g, accepted)

\* cfg.glossary.update(new_terms); cfg.save_glossary()
UpdateGlossary ==
  /\ UNCHANGED <<config, load_failed, initial_vars, cleanup_vars>>
  /\ pc = "merge"
  /\ \E ok \in WriteOutcomes : SaveGlossary(Merged(glossary, new_terms), ok)
  /\ expected' = ExpectedAfter(expected, new_terms)
  /\ pc' = "next"
  /\ UNCHANGED <<args, idx, dest, glossary_text, existing_glossary,
                 new_terms_array, new_terms, cleanStart, attempts, delays, outcome,
                 partial, user_input>>

\* the for statement takes the next file: the chapter's locals are dead
Advance ==
  /\ UNCHANGED <<config, load_failed, initial_vars, cleanup_vars>>
  /\ pc = "next"
  /\ pc' = "loop"
  /\ idx' = idx + 1
  /\ glossary_text' = << >>
  /\ existing_glossary' = << >>
  /\ new_terms_array' = << >>
  /\ new_terms' = << >>
  /\ attempts' = << >>
  /\ delays' = 0
  /\ saved' = "no"
  /\ preSave' = << >>
  /\ UNCHANGED <<args, glossary, file, dest, expected, cleanStart, failures, outcome,
                 partial, user_input>>

\* line 733
FinalSaveDue == ~ args.no_glossary /\ glossary # << >>

\* lines 733-735
FinalSave ==
  /\ UNCHANGED <<config, load_failed, initial_vars, cleanup_vars>>
  /\ pc = "loop"
  /\ idx \notin Chapters
  /\ IF FinalSaveDue
     THEN \E ok \in WriteOutcomes : SaveGlossary(glossary, ok)
     ELSE /\ saved' = "no"
          /\ preSave' = << >>
          /\ UNCHANGED <<glossary, file, failures>>
  /\ pc' = "done"
  /\ UNCHANGED <<args, idx, dest, glossary_text, existing_glossary,
                 new_terms_array, new_terms, expected, cleanStart, attempts, delays,
                 outcome, partial, user_input>>

\* the run is over: finished, cancelled at the review, stopped by a
\* configuration error, or interrupted
Ended == pc \in {"done", "exit", "abort", "interrupted"}

\* lines 962-967: KeyboardInterrupt leaves main() and the process exits; what
\* it held in memory is gone, translated and glossary.txt are what stays
ProcessExits ==
  /\ initial_glossary' = << >>
  /\ filtered_glossary' = << >>
  /\ load_failed' = FALSE
  /\ UNCHANGED <<config, cleanup_vars>>
  /\ pc' = "interrupted"
  /\ glossary' = << >>
  /\ idx' = 1
  /\ glossary_text' = << >>
  /\ existing_glossary' = << >>
  /\ new_terms_array' = << >>
  /\ new_terms' = << >>
  /\ saved' = "no"
  /\ preSave' = << >>
  /\ expected' = << >>
  /\ attempts' = << >>
  /\ delays' = 0
  /\ user_input' = "none"
  /\ UNCHANGED <<args, cleanStart, failures, outcome>>

\* the interrupt arrives while no file is being written
Interrupt ==
  /\ ~ Ended
  /\ ProcessExits
  /\ UNCHANGED <<file, dest, partial>>

\* the interrupt arrives inside dest_file.write_text, after the file is opened
\* for writing and before its text is written out
InterruptWriteDest ==
  /\ pc = "write"
  /\ ProcessExits
  /\ dest' = dest \cup {idx}
  /\ partial' = partial \cup {idx}
  /\ UNCHANGED file

\* save_glossary is about to run: after a chapter's merge, at the end of the
\* loop, in the bootstrap
SaveDue ==
  \/ pc = "merge"
  \/ pc = "loop" /\ idx \notin Chapters /\ FinalSaveDue
  \/ pc = "init_glossary" /\ WantsInitialGlossary

\* the interrupt arrives inside glossary_path.write_text, after the file is
\* opened for writing (and so emptied) and before its text is written out
InterruptSaveGlossary ==
  /\ SaveDue
  /\ ProcessExits
  /\ file' = FileOf(<< >>)
  /\ UNCHANGED <<dest, partial>>

ChapterBatches == SeqsUpTo(CandPool, MaxBatch)
TranslateChapter == Translate(ChapterBatches)

\* a run that no interrupt reaches
NextRun ==
  \/ Setup
  \/ FoldersReady
  \/ NoInitialGlossary
  \/ GenerateFails
  \/ GenerateInitialGlossary
  \/ ReviewYes
  \/ ReviewNo
  \/ ReviewOther
  \/ ReviewUnread
  \/ ListFiles
  \/ SkipChapter
  \/ CallReturns
  \/ TranslateChapter
  \/ TransientFailure
  \/ NonTransientFailure
  \/ ReadFails
  \/ WriteDest
  \/ WriteDestFails
  \/ UpdateGlossary
  \/ Advance
  \/ FinalSave

Next ==
  \/ NovelDirMissing
  \/ ApiKeyMissing
  \/ RawFolderMissing
  \/ NextRun
  \/ Interrupt
  \/ InterruptWriteDest
  \/ InterruptSaveGlossary

Spec == Init /\ [][Next]_vars

\* the runs whose configuration is complete, that start without glossary.txt
\* and not in strict mode
InitLive ==
  /\ Init
  /\ config = ConfigFound
  /\ file = NoFile
  /\ ~ args.strict_glossary

\* such a run without interrupts, in which every step that can be taken is
\* taken in the end: the calls return, the operator answers the review
\* question
SpecLive == InitLive /\ [][NextRun]_vars /\ WF_vars(NextRun)

\* ------------------------------------------------------------ one chapter

\* The last chapter of a run whose glossary was loaded from a file holding
\* one of these stores, with a richer choice of candidates.
StorePool ==
  { << >>,
    << Entry(Mira, DefP) >>,
    << Entry(MiraOrig, DefP) >>,
    << Entry(MiraSol, DefP), Entry(Bo, DefQ) >>,
    << Entry(Bo, DefP), Entry(Al, DefP), Entry(Cy, DefP) >> }

InitChapter ==
  /\ pc = "loop"
  /\ args \in { a \in ArgsSet : ~ a.regenerate_glossary /\ ~ a.no_glossary
                                /\ ~ a.skip_glossary_review }
  /\ glossary \in StorePool
  /\ file = (IF glossary = << >> THEN NoFile ELSE FileOf(SaveLines(glossary)))
  /\ dest = {}
  /\ idx = NumChapters
  /\ glossary_text = << >>
  /\ existing_glossary = << >>
  /\ new_terms_array = << >>
  /\ new_terms = << >>
  /\ saved = "no"
  /\ preSave = << >>
  /\ expected = glossary
  /\ cleanStart = NoDuplicateBase(glossary)
  /\ failures = 0
  /\ attempts = << >>
  /\ delays = 0
  /\ outcome = [c \in Chapters |-> IF c < NumChapters THEN "failed" ELSE "pending"]
  /\ partial = {}
  /\ user_input = "none"
  /\ config = ConfigFound
  /\ load_failed = FALSE
  /\ initial_glossary = << >>
  /\ filtered_glossary = << >>
  /\ original_glossary = << >>
  /\ cleaned = << >>
  /\ removed_terms = << >>

AnyBatches == SeqsUpTo(FilterPool, MaxFilterBatch)
TranslateAny == Translate(AnyBatches)

NextOne ==
  \/ CallReturns
  \/ TranslateAny
  \/ WriteDest
  \/ WriteDestFails
  \/ UpdateGlossary
  \/ Advance
  \/ FinalSave

SpecChapter == InitChapter /\ [][NextOne]_vars

\* ------------------------------------------------------------ the bootstrap

\* A run up to its first chapter's call, with a richer choice of replies to
\* the glossary request and an operator who may edit glossary.txt while the
\* review question waits.
MaxInitialResponse == 3

\* the lines of the reply: a bracketed term, a stoplisted one, a term of an
\* entry of FilePool with another definition, and a term that occurs once in
\* the first two chapters and has no bracket
InitialPool ==
  { MiraOrig \o <<":"," ">> \o DefP,
    King \o <<":"," ">> \o DefP,
    Bo \o <<":"," ">> \o DefQ,
    Al \o <<":"," ">> \o DefP }

InitialResponses == SeqsUpTo(InitialPool, MaxInitialResponse)
GenerateInitialAny == GenerateInitial(InitialResponses)

\* the line the operator may add
AddedLine == Cy \o <<":"," ">> \o DefQ

\* glossary.txt after one edit of the operator: the first line removed, a
\* line added at the end, the definition of the first line changed
EditedFiles(f) ==
  (IF f.lines # << >> THEN { FileOf(Tail(f.lines)) } ELSE { })
  \cup (IF \A i \in 1..Len(f.lines) : f.lines[i] # AddedLine
        THEN { FileOf(Append(f.lines, AddedLine)) } ELSE { })
  \cup (IF f.lines # << >> /\ LineLoads(f.lines[1])
        THEN { FileOf([f.lines EXCEPT ![1] = FormatLine(Entry(ParseLine(@).term, DefQ))]) }
        ELSE { })

\* lines 930-938: the question waits for the answer, and the operator edits
\* the file that the bootstrap has just written, or failed to write
OperatorEdits ==
  /\ pc = "review"
  /\ saved # "no"
  /\ file' \in EditedFiles(file)
  /\ saved' = "no"
  /\ preSave' = << >>
  /\ UNCHANGED <<pc, args, glossary, idx, dest, glossary_text, existing_glossary,
                 new_terms_array, new_terms, expected, cleanStart, failures, attempts,
                 delays, outcome, partial, user_input, config, load_failed,
                 initial_vars, cleanup_vars>>

\* the first chapter's reply proposes no term
TranslateFirst == Translate({ << >> })

InitBootstrap ==
  /\ Init
  /\ config = ConfigFound
  /\ dest = {}
  /\ ~ args.strict_glossary

NextBootstrap ==
  \/ Setup
  \/ FoldersReady
  \/ NoInitialGlossary
  \/ GenerateFails
  \/ GenerateInitialAny
  \/ OperatorEdits
  \/ ReviewYes
  \/ ReviewNo
  \/ ReviewOther
  \/ ReviewUnread
  \/ ListFiles
  \/ CallReturns
  \/ TranslateFirst

SpecBootstrap == InitBootstrap /\ [][NextBootstrap]_vars

\* ------------------------------------------------------------ cleanup_glossary.py

\* The utility run on a glossary.txt of up to MaxCleanupLines lines.  Its
\* args (--no-backup, --dry-run) are in args; the backup copy that
\* save_glossary makes is not part of the state.
MaxCleanupLines == 3

DefCommon == <<"c","o","m","m","o","n">>

\* a part of get_excluded_terms (its literal holds the three words of
\* excluded_terms) and of generic_indicators
get_excluded_terms == excluded_terms
generic_indicators == { DefCommon }

\* the lines of glossary.txt: a kept term, a stoplisted one, a stoplisted one
\* with a bracket, a generic description, the two reasons at once, a generic
\* description of a bracketed term
CleanupLines ==
  { Mira \o <<":"," ">> \o DefP,
    King \o <<":"," ">> \o DefP,
    KingOrig \o <<":"," ">> \o DefP,
    Bo \o <<":"," ">> \o DefCommon,
    <<"I","n","n">> \o <<":"," ">> \o DefCommon,
    MiraOrig \o <<":"," ">> \o DefCommon }

CleanupArgs == [no_backup : BOOLEAN, dry_run : BOOLEAN]

\* load_glossary: the lines with a colon, a term and a definition
load_glossary(f, failed) ==
  IF failed \/ ~ f.exists THEN << >> ELSE ParseResponse(<< >>, f.lines)

\* the lines that clean_glossary appends to removed_terms for one entry
RemovedLines(e) ==
  (IF BaseTerm(e.term) \in get_excluded_terms
   THEN << [term |-> e.term, reason |-> "common term"] >> ELSE << >>)
  \o (IF \E indicator \in generic_indicators : Contains(indicator, Lower(e.definition))
      THEN << [term |-> e.term, reason |-> "generic description"] >> ELSE << >>)

\* whether clean_glossary keeps the entry: should_exclude is set with each
\* line appended and reset for a term with both brackets
Kept(e) ==
  \/ HasChar(e.term, "[") /\ HasChar(e.term, "]")
  \/ RemovedLines(e) = << >>

\* clean_glossary: the dict cleaned, and removed_terms
RECURSIVE CleanedOf(_)
CleanedOf(g) ==
  IF g = << >> THEN << >>
  ELSE (IF Kept(Head(g)) THEN <<Head(g)>> ELSE << >>) \o CleanedOf(Tail(g))

RECURSIVE RemovedOf(_)
RemovedOf(g) ==
  IF g = << >> THEN << >> ELSE RemovedLines(Head(g)) \o RemovedOf(Tail(g))

\* sorted(glossary.items()): the terms differ, so the term decides
SortedItems(g) ==
  LET terms == Sorted([i \in 1..Len(g) |-> g[i].term])
  IN [i \in 1..Len(g) |-> g[KeyIndex(g, terms[i])]]

InitCleanup ==
  /\ pc = "cleanup_start"
  /\ args \in CleanupArgs
  /\ file \in { NoFile } \cup { FileOf(lines) : lines \in SeqsUpTo(CleanupLines, MaxCleanupLines) }
  /\ glossary = << >>
  /\ idx = 1
  /\ dest = {}
  /\ glossary_text = << >>
  /\ existing_glossary = << >>
  /\ new_terms_array = << >>
  /\ new_terms = << >>
  /\ saved = "no"
  /\ preSave = << >>
  /\ expected = << >>
  /\ cleanStart = TRUE
  /\ failures = 0
  /\ attempts = << >>
  /\ delays = 0
  /\ outcome = [c \in Chapters |-> "pending"]
  /\ partial = {}
  /\ user_input = "none"
  /\ config = ConfigFound
  /\ load_failed = FALSE
  /\ initial_glossary = << >>
  /\ filtered_glossary = << >>
  /\ original_glossary = << >>
  /\ cleaned = << >>
  /\ removed_terms = << >>

\* what the utility never touches
translator_vars ==
  <<args, glossary, idx, dest, glossary_text, existing_glossary, new_terms_array,
    new_terms, saved, preSave, expected, cleanStart, failures, attempts, delays,
    outcome, partial, user_input, config, initial_vars>>

\* main, lines 173-184: no glossary.txt, or no term in it: sys.exit(1)
CleanupNothingLoaded ==
  /\ pc = "cleanup_start"
  /\ \E failed \in ReadFailures(file) :
       /\ load_failed' = failed
       /\ load_glossary(file, failed) = << >>
  /\ pc' = "cleanup_exit"
  /\ UNCHANGED <<file, translator_vars, cleanup_vars>>

\* main, lines 179-197: the glossary is loaded and cleaned, and the counts
\* and the removed lines are printed
CleanupReport ==
  /\ pc = "cleanup_start"
  /\ \E failed \in ReadFailures(file) :
       /\ load_failed' = failed
       /\ original_glossary' = load_glossary(file, failed)
  /\ original_glossary' # << >>
  /\ cleaned' = CleanedOf(original_glossary')
  /\ removed_terms' = RemovedOf(original_glossary')
  /\ pc' = "cleanup_report"
  /\ UNCHANGED <<file, translator_vars>>

\* lines 199-210: a dry run, nothing to remove, or an answer that does not
\* start with y
CleanupKeepsFile ==
  /\ pc = "cleanup_report"
  /\ pc' = "cleanup_done"
  /\ UNCHANGED <<file, load_failed, translator_vars, cleanup_vars>>

\* lines 202-205 and save_glossary: the answer starts with y, the cleaned
\* glossary is written in the order of its terms
CleanupSaves ==
  /\ pc = "cleanup_report"
  /\ ~ args.dry_run
  /\ removed_terms # << >>
  /\ file' = FileOf(SaveLines(SortedItems(cleaned)))
  /\ pc' = "cleanup_done"
  /\ UNCHANGED <<load_failed, translator_vars, cleanup_vars>>

\* save_glossary, lines 40-52: the file is renamed to the backup unless
\* --no-backup, and opening it for writing fails: the error is printed
CleanupSaveFails ==
  /\ pc = "cleanup_report"
  /\ ~ args.dry_run
  /\ removed_terms # << >>
  /\ file' = IF args.no_backup THEN file ELSE NoFile
  /\ pc' = "cleanup_done"
  /\ UNCHANGED <<load_failed, translator_vars, cleanup_vars>>

NextCleanup ==
  \/ CleanupNothingLoaded
  \/ CleanupReport
  \/ CleanupKeepsFile
  \/ CleanupSaves
  \/ CleanupSaveFails

SpecCleanup == InitCleanup /\ [][NextCleanup]_vars

\* ------------------------------------------------------------ claims

Range(q) == { q[i] : i \in 1..Len(q) }

\* the stripped term of a proposed item, and its base term
TermOf(item) == ItemOf(item).term
BaseOf(item) == BaseTerm(TermOf(item))

\* the chapter at idx has been dealt with to its end
ChapterSettled == pc = "next"

\* C1: in every reachable state of a run whose loaded store had no duplicate
\* and no contained base term, no two entries of the store have the same
\* base term and no entry's base term is a substring of another's.
C1_NoDuplicateOrContainedBase == cleanStart => NoDuplicateBase(glossary)

\* C2: with the glossary in use, the dict and the glossary text handed to a
\* chapter's translate call are those of the store that results from applying,
\* in the order of the chapters, the terms accepted from the chapters before
\* it to the store the loop started with: every earlier merge is complete
\* when the call is made.
C2_TranslateSeesMergedStore ==
  (pc = "write" /\ ~ args.no_glossary) =>
    /\ existing_glossary = expected
    /\ glossary_text = get_glossary_text(expected)

\* C2 witness: the call for the second chapter got a term that only the
\* first chapter can have brought in.
C2_Witness ==
  /\ pc = "write"
  /\ idx = 2
  /\ ~ args.no_glossary
  /\ MiraSol \in Keys(existing_glossary)

\* a proposed item whose base term is the base term of an entry of g
SameBaseAsEntry(item, g) == \E i \in 1..Len(g) : BaseOf(item) = BaseTerm(g[i].term)

\* C3: a candidate whose base term equals the base term of an existing entry,
\* in any casing and whichever of the two carries the bracketed form, is not
\* accepted, and a chapter proposing only such candidates leaves the store as
\* it was: same entries, same definitions, same order.
C3_SameBaseLeavesStore ==
  /\ pc \in {"write", "merge"} =>
       \A k \in 1..Len(new_terms_array) :
         SameBaseAsEntry(new_terms_array[k], existing_glossary)
           => TermOf(new_terms_array[k]) \notin Keys(new_terms)
  /\ ( /\ ChapterSettled
       /\ new_terms_array # << >>
       /\ \A k \in 1..Len(new_terms_array) :
            SameBaseAsEntry(new_terms_array[k], existing_glossary) )
     => glossary = existing_glossary

\* C3 witness: the store held "Mira [m]", the chapter proposed "MIRA", and
\* the chapter is done.
C3_Witness ==
  /\ ChapterSettled
  /\ existing_glossary = << Entry(MiraOrig, DefP) >>
  /\ new_terms_array = << Entry(MiraCaps, DefQ) >>

\* the base term b equals, is inside, or holds the base term of an entry of g
ContainmentDuplicate(b, g) ==
  \E i \in 1..Len(g) :
    Contains(b, BaseTerm(g[i].term)) \/ Contains(BaseTerm(g[i].term), b)

\* a proposed item with a term and a definition
WellFormed(item) == ItemOf(item).term # << >> /\ ItemOf(item).definition # << >>

\* C4: the filter rejects a candidate whose base term equals, is a substring
\* of, or contains an existing entry's base term, and admits a candidate that
\* is none of these and is not stoplisted, the cap permitting.
C4_RejectsContainmentBothWays ==
  (pc = "write" /\ existing_glossary # << >>) =>
    \A k \in 1..Len(new_terms_array) :
      LET item == new_terms_array[k]
      IN /\ ContainmentDuplicate(BaseOf(item), existing_glossary)
              => TermOf(item) \notin Keys(new_terms)
         /\ ( /\ WellFormed(item)
              /\ BaseOf(item) \notin excluded_terms
              /\ ~ ContainmentDuplicate(BaseOf(item), existing_glossary)
              /\ Len(new_terms_array) <= MaxTerms(args.strict_glossary) )
            => TermOf(item) \in Keys(new_terms)

\* a batch none of whose candidates is stoplisted, a duplicate of an entry of
\* g, or a duplicate of another candidate
CleanBatch(batch, g) ==
  /\ \A k \in 1..Len(batch) :
       /\ WellFormed(batch[k])
       /\ BaseOf(batch[k]) \notin excluded_terms
       /\ ~ ContainmentDuplicate(BaseOf(batch[k]), g)
  /\ \A k, l \in 1..Len(batch) :
       k # l => ~ Contains(BaseOf(batch[k]), BaseOf(batch[l]))

\* C5: of n candidates none of which is a duplicate or stoplisted, the first
\* min(n, cap) are accepted, in the order proposed, the cap being
\* MAX_NEW_TERMS_PER_CHAPTER in non-strict mode and 1 in strict mode.
C5_CapOneWhenStrict ==
  (pc = "write" /\ CleanBatch(new_terms_array, existing_glossary)) =>
    new_terms = FirstN([k \in 1..Len(new_terms_array) |-> ItemOf(new_terms_array[k])],
                       IF args.strict_glossary THEN 1 ELSE MAX_NEW_TERMS_PER_CHAPTER)

\* C6: no step of bootstrap or of a chapter adds to the store a term whose
\* base term is stoplisted; only reading the glossary file can bring one in.
C6_StoplistedNeverAdded ==
  [][ pc \notin {"start", "review"} =>
        \A t \in Keys(glossary') \ Keys(glossary) : BaseTerm(t) \notin excluded_terms ]_vars

\* C6 witness: a chapter that proposed a stoplisted term has been merged.
C6_Witness ==
  /\ pc = "next"
  /\ saved = "ok"
  /\ new_terms # << >>
  /\ \E k \in 1..Len(new_terms_array) : BaseOf(new_terms_array[k]) \in excluded_terms

\* C7: after every save the store in memory holds at most
\* MAX_GLOSSARY_ENTRIES entries, and so does the file the save wrote.
C7_SavedWithinCapacity ==
  /\ saved # "no" => Len(glossary) <= MAX_GLOSSARY_ENTRIES
  /\ saved = "ok" =>
       /\ file.exists
       /\ Len(file.lines) <= MAX_GLOSSARY_ENTRIES
       /\ Len(LoadGlossary(file)) <= MAX_GLOSSARY_ENTRIES

\* C7 witness: a save found more entries than the cap and wrote the file.
C7_Witness == saved = "ok" /\ Len(preSave) > MAX_GLOSSARY_ENTRIES

\* C8 as stated: a save that finds too many entries evicts the oldest, so
\* the entry accepted last is still in the store afterwards.
C8_NewestSurviveEviction ==
  (pc = "next" /\ saved = "ok" /\ Len(preSave) > MAX_GLOSSARY_ENTRIES) =>
    new_terms[Len(new_terms)] \in Range(glossary)

\* C8 as amended: a save that finds too many entries keeps the first
\* MAX_GLOSSARY_ENTRIES of them in their order, the oldest, and drops the
\* ones inserted last.
C8_OldestSurviveEviction ==
  (saved # "no" /\ Len(preSave) > MAX_GLOSSARY_ENTRIES) =>
    /\ Len(glossary) = MAX_GLOSSARY_ENTRIES
    /\ \A i \in 1..MAX_GLOSSARY_ENTRIES : glossary[i] = preSave[i]
    /\ \A i \in (MAX_GLOSSARY_ENTRIES + 1)..Len(preSave) : preSave[i] \notin Range(glossary)

\* C8 witness: a chapter's merge overflowed the store and the save cut it.
C8_Witness ==
  /\ pc = "next"
  /\ saved = "ok"
  /\ new_terms # << >>
  /\ Len(preSave) > MAX_GLOSSARY_ENTRIES

\* C9: a store within the cap that was saved loads back as the same entries
\* in the same order.
C9_SaveLoadRoundTrip ==
  (saved = "ok" /\ Len(preSave) <= MAX_GLOSSARY_ENTRIES) => LoadGlossary(file) = glossary

\* C10: the store just loaded holds no entry with an empty term or an empty
\* definition, and is empty when the file is missing.
C10_LoadSkipsMalformed ==
  pc = "init_glossary" =>
    /\ \A i \in 1..Len(glossary) : glossary[i].term # << >> /\ glossary[i].definition # << >>
    /\ \A i \in 1..Len(file.lines) :
         ~ HasChar(file.lines[i], ":") => Strip(file.lines[i]) \notin Keys(glossary)
    /\ ~ file.exists => glossary = << >>

\* the first n calls failed transiently and the next one returned
RetriedThenOk(n) == [i \in 1..(n + 1) |-> IF i <= n THEN "transient" ELSE "ok"]

\* every call allowed failed transiently
AllTransient == [i \in 1..RETRY_ATTEMPTS |-> "transient"]

\* C11: a chapter whose translate step fails gets no translated file and
\* leaves the dict and glossary.txt as they were; while the chapters are
\* processed, only the merge of a chapter whose call returned and whose
\* translated file was written changes the dict or glossary.txt.
C11_FailedTranslateChangesNothing ==
  [][ /\ (pc = "loop" /\ pc' = "next") =>
           /\ outcome'[idx] = "failed"
           /\ idx \notin dest'
           /\ dest' = dest
           /\ glossary' = glossary
           /\ file' = file
      /\ ( /\ pc \in {"loop", "reply", "write", "merge", "next"}
           /\ idx \in Chapters
           /\ pc' # "interrupted"
           /\ (glossary' # glossary \/ file' # file) ) =>
           /\ pc = "merge"
           /\ outcome[idx] = "translated"
           /\ idx \in dest ]_vars

\* C11 witness: a chapter has failed after three transient failures while the
\* dict held entries.
C11_Witness ==
  /\ pc = "next"
  /\ outcome[idx] = "failed"
  /\ attempts = AllTransient
  /\ glossary # << >>

\* C12: a call that returns has made at most RETRY_ATTEMPTS attempts, the k
\* before the last all transient failures, and has slept exactly k times; its
\* chapter is not failed or skipped: the reply is used and the translated file
\* written next.
C12_DelaysEqualFailedAttempts ==
  pc = "reply" =>
    /\ \E k \in 0..(RETRY_ATTEMPTS - 1) : attempts = RetriedThenOk(k) /\ delays = k
    /\ outcome[idx] = "pending"
    /\ idx \notin dest

\* C12 witness: attempts 1 and 2 failed, attempt 3 returned, after 2 delays.
C12_Witness ==
  /\ pc = "reply"
  /\ attempts = RetriedThenOk(2)
  /\ delays = 2

\* C13: no translate call makes more than RETRY_ATTEMPTS attempts, and when
\* every attempt failed transiently the chapter has failed after
\* RETRY_ATTEMPTS - 1 delays and the loop goes on.
C13_ExhaustedRetriesFailChapter ==
  /\ Len(attempts) <= RETRY_ATTEMPTS
  /\ attempts = AllTransient =>
       /\ pc = "next"
       /\ delays = RETRY_ATTEMPTS - 1
       /\ outcome[idx] = "failed"

\* C13 witness: the second chapter failed after three transient failures.
C13_Witness ==
  /\ attempts = AllTransient
  /\ idx = 2

\* C14: an error that is not transient is the last attempt of its call: the
\* chapter has failed at once, without a delay after the error, the delays
\* made being those of the transient failures before it, and the loop goes on.
C14_NonTransientNotRetried ==
  (attempts # << >> /\ attempts[Len(attempts)] = "other") =>
    /\ pc = "next"
    /\ outcome[idx] = "failed"
    /\ idx \notin dest
    /\ \A i \in 1..(Len(attempts) - 1) : attempts[i] = "transient"
    /\ delays = Len(attempts) - 1

\* C14 witness: the first call of a chapter failed with such an error: one
\* call, no delay.
C14_Witness ==
  /\ pc = "next"
  /\ attempts = <<"other">>
  /\ delays = 0

\* every chapter was skipped, translated or has failed
AllAccounted ==
  \A c \in Chapters :
    /\ outcome[c] \in {"skipped", "translated", "failed"}
    /\ outcome[c] \in {"skipped", "translated"} => c \in dest

\* C15: a run that no interrupt reaches ends; once the chapters are listed it
\* ends by leaving the loop, whatever the chapters' outcomes, and then every
\* chapter was skipped, translated or has failed.
C15_RunEndsWithEveryChapterTried ==
  /\ <>Ended
  /\ (pc = "files") ~> (pc = "done")
  /\ [](pc = "done" => AllAccounted)

\* C15 witness: the run is over, the first chapter has failed and the second
\* was translated.
C15_Witness ==
  /\ pc = "done"
  /\ outcome[1] = "failed"
  /\ outcome[2] = "translated"

\* C16: the step taken at a chapter whose translated file exists makes no
\* call, writes no file and leaves the dict alone, and every call is made for
\* a chapter without a translated file; the translated files are never
\* removed, so a run that finds every chapter translated makes no call.
C16_ExistingOutputSkipsChapter ==
  [][ /\ ( /\ pc = "loop"
           /\ idx \in Chapters
           /\ idx \in dest
           /\ pc' # "interrupted" ) =>
           /\ pc' = "loop"
           /\ idx' = idx + 1
           /\ outcome'[idx] = "skipped"
           /\ attempts' = << >>
           /\ dest' = dest
           /\ glossary' = glossary
           /\ file' = file
      /\ Len(attempts') > Len(attempts) => idx \notin dest
      /\ dest \subseteq dest' ]_vars

\* C16 witness: a run that found every chapter translated is over, every
\* chapter skipped.
C16_Witness ==
  /\ pc = "done"
  /\ \A c \in Chapters : outcome[c] = "skipped"

\* C17: an interrupt that arrives while the chapters are processed leaves
\* glossary.txt as it was last written, removes no translated file and leaves
\* no translated file cut short, so that every file a later run finds is whole.
C17_InterruptKeepsWrittenFiles ==
  [][ (pc \in {"loop", "reply", "write", "merge", "next"} /\ pc' = "interrupted") =>
        /\ file.exists => file' = file
        /\ dest \subseteq dest'
        /\ partial' = {} ]_vars

\* the number a file name starts with
DigitValue(c) == IF c = "0" THEN 0 ELSE CHOOSE i \in 1..Len(Digits) : Digits[i] = c

RECURSIVE NumberFrom(_, _)
NumberFrom(name, n) ==
  IF name = << >> \/ (Head(name) # "0" /\ ~ \E i \in 1..Len(Digits) : Digits[i] = Head(name))
  THEN n
  ELSE NumberFrom(Tail(name), 10 * n + DigitValue(Head(name)))

NumberIn(name) == NumberFrom(name, 0)

\* C18: a chapter is translated after every chapter whose file name holds a
\* smaller number.
C18_NaturalOrder ==
  pc = "write" =>
    \A i \in Chapters :
      NumberIn(ChapterName(i)) < NumberIn(ChapterName(idx)) => i < idx

\* C19 as stated: after a chapter save_glossary has run if and only if the
\* chapter was translated and a term of it was accepted, and it has run when
\* the session ends.
C19_SavedIffTermsAccepted ==
  /\ pc = "next" => (saved # "no" <=> (outcome[idx] = "translated" /\ new_terms # << >>))
  /\ pc = "done" => saved # "no"

\* C19 as amended: with the glossary in use, save_glossary has run after a
\* chapter if and only if the chapter was translated, its file written, and a
\* term of it accepted; no other step of the loop runs it; at the end of the
\* loop it runs once more if and only if the glossary is in use and not empty.
C19_SavedIffMergedAndAtEnd ==
  /\ pc = "next" =>
       (saved # "no" <=>
          (outcome[idx] = "translated" /\ new_terms # << >> /\ ~ args.no_glossary))
  /\ pc \in {"loop", "reply", "write", "merge"} => saved = "no"
  /\ pc = "done" => (saved # "no" <=> (~ args.no_glossary /\ glossary # << >>))

\* C19 witness: the last chapter was translated, a term of it accepted, and
\* save_glossary has run.
C19_Witness ==
  /\ pc = "next"
  /\ idx = NumChapters
  /\ outcome[idx] = "translated"
  /\ new_terms # << >>
  /\ saved # "no"

\* C20: the chapters are reached from the review only by the answer y, and
\* with the review skipped no question is asked.
C20_NoChapterBeforeYes ==
  /\ pc = "files" => user_input \in {"none", "y"}
  /\ args.skip_glossary_review => user_input = "none"
  /\ pc = "exit" => (user_input = "n" /\ \A c \in Chapters : outcome[c] = "pending")

\* C21: the answer y leaves in the dict what glossary.txt holds at that
\* moment, as _load_glossary reads it (nothing when the file cannot be read);
\* no step from there to the first chapter's call changes the dict or the
\* file, and that call is handed this dict and its text.
C21_YesReloadsEditedFile ==
  [][ /\ (pc = "review" /\ pc' = "files" /\ user_input' = "y") =>
           glossary' = (IF load_failed' THEN << >> ELSE LoadGlossary(file))
      /\ (pc \in {"files", "loop", "reply"} /\ idx = 1) =>
           (glossary' = glossary /\ file' = file)
      /\ (pc = "reply" /\ pc' = "write" /\ idx = 1 /\ ~ args.no_glossary) =>
           /\ existing_glossary' = glossary
           /\ glossary_text' = get_glossary_text(glossary) ]_vars

\* C21 witness: the first chapter's call is handed the entry that only the
\* operator's added line can have brought in.
C21_Witness ==
  /\ pc = "write"
  /\ idx = 1
  /\ \E i \in 1..Len(existing_glossary) : existing_glossary[i] = Entry(Cy, DefQ)

\* the terms a reply can propose, with the occurrences of each in the
\* combined text and its score
CandidateTerms == { ParseLine(line).term : line \in InitialPool \cup ResponsePool }
OccurrencesOf == [t \in CandidateTerms |-> OccurrenceCount(t, combined_text)]
ScoreOf == [t \in CandidateTerms |-> OccurrencesOf[t] * (IF HasChar(t, "[") THEN 2 ELSE 1)]

\* the candidates of the reply that score higher than the term
HigherScoring(term, candidates) ==
  { i \in 1..Len(candidates) : ScoreOf[candidates[i].term] > ScoreOf[term] }

\* the terms a bootstrap step brings into the dict: those it merges, and
\* those the dict did not hold before
MergedTerms == Keys(filtered_glossary') \cup (Keys(preSave') \ Keys(glossary))

\* C22: every term that the bootstrap merges is a candidate of the reply with
\* fewer than MAX_INITIAL_TERMS candidates scoring higher, occurs at least
\* twice in the combined text or has a bracket, and is not stoplisted; one
\* bootstrap merges at most MAX_INITIAL_TERMS terms and lengthens the dict by
\* no more.
C22_BootstrapKeepsTopScored ==
  [][ (pc = "init_glossary" /\ initial_glossary' # << >>) =>
        /\ \A t \in MergedTerms :
             /\ t \in Keys(initial_glossary')
             /\ Cardinality(HigherScoring(t, initial_glossary')) < MAX_INITIAL_TERMS
             /\ OccurrencesOf[t] >= 2 \/ HasChar(t, "[")
             /\ BaseTerm(t) \notin excluded_terms
        /\ Cardinality(MergedTerms) <= MAX_INITIAL_TERMS
        /\ Len(preSave') <= Len(glossary) + MAX_INITIAL_TERMS ]_vars

\* C22 witness: of three candidates the two that score highest were kept, one
\* of them stoplisted, and the third, which occurs twice, was left out.
C22_Witness ==
  /\ pc \in {"review", "files"}
  /\ Keys(initial_glossary) = {King, Bo, MiraOrig}
  /\ initial_glossary[1].term = King
  /\ Keys(filtered_glossary) = {MiraOrig}

\* C23: a load that fails leaves the empty dict; a save that fails leaves the
\* run at the step that follows the save; after either failure the run goes
\* on to its end, which is the end of the loop unless the operator answers n,
\* with every chapter skipped, translated or failed.
C23_GlossaryIOFailureNotFatal ==
  /\ [](load_failed => glossary = << >>)
  /\ [][saved' = "failed" => pc' \in {"review", "files", "next", "done"}]_vars
  /\ (load_failed \/ saved = "failed") ~> (pc = "done" \/ user_input = "n")
  /\ [](pc = "done" => AllAccounted)

\* C23 witness: the run is over after a save that failed at the first
\* chapter, and the second chapter was translated.
C23_Witness ==
  /\ pc = "done"
  /\ failures > 0
  /\ outcome[1] = "translated"
  /\ outcome[2] = "translated"
  /\ saved = "ok"

\* a call to the model has been made or answered, a translated file or
\* glossary.txt written
ChapterProcessingBegun ==
  \/ pc \in {"init_glossary", "review", "files", "loop", "reply", "write", "merge",
              "next", "done"}
  \/ attempts # << >>
  \/ initial_glossary # << >>

\* C24: a run that finds no novel directory, no API key or no raw folder
\* stops before the glossary request and before the chapters: it makes no
\* call, and no step of it changes a translated file or glossary.txt.
C24_ConfigErrorAbortsEarly ==
  [][ (config # ConfigFound /\ pc' # "interrupted") =>
        /\ pc' \in {"start", "folders", "abort"}
        /\ ~ ChapterProcessingBegun'
        /\ file' = file
        /\ dest' = dest
        /\ saved' = "no"
        /\ (pc = "start" /\ (~ config.novel_directory \/ ~ config.api_key)) => pc' = "abort"
        /\ pc = "folders" => pc' = "abort" ]_vars

\* C24 witness: the run has stopped for want of the raw folder, after the
\* glossary file was loaded.
C24_Witness ==
  /\ pc = "abort"
  /\ ~ config.raw_folder
  /\ glossary # << >>

\* the entries of accepted whose term the dict g does not hold, in their order
RECURSIVE NewEntries(_, _)
NewEntries(accepted, g) ==
  IF accepted = << >> THEN << >>
  ELSE (IF Head(accepted).term \in Keys(g) THEN << >> ELSE <<Head(accepted)>>)
       \o NewEntries(Tail(accepted), g)

\* C25: the dict that results from a merge, of the bootstrap or of a chapter,
\* starts with the entries it held before, each with its term and its
\* definition and in the same order, and goes on with the accepted entries in
\* the order of their acceptance.
C25_MergeOnlyAppends ==
  [][ ((pc = "init_glossary" \/ pc = "merge") /\ saved' # "no") =>
        LET accepted == IF pc = "merge" THEN new_terms ELSE filtered_glossary'
        IN /\ Len(preSave') >= Len(glossary)
           /\ SubSeq(preSave', 1, Len(glossary)) = glossary
           /\ SubSeq(preSave', Len(glossary) + 1, Len(preSave'))
                = NewEntries(accepted, glossary) ]_vars

\* C26: in a run with --no_glossary no step changes glossary.txt, and none
\* after the load changes the dict; no glossary request is made; every
\* chapter's call is handed no glossary text and no dict.
C26_NoGlossaryTouchesNothing ==
  [][ (args.no_glossary /\ pc' # "interrupted") =>
        /\ file' = file
        /\ pc # "start" => glossary' = glossary
        /\ initial_glossary' = << >>
        /\ pc' = "write" => (glossary_text' = << >> /\ existing_glossary' = << >>) ]_vars

\* C27: in a run with --regenerate_glossary, the dict that the bootstrap
\* leaves, and glossary.txt once it is written, hold only the entries that this
\* bootstrap merged.
C27_RegenerateFromScratch ==
  [][ (pc = "init_glossary" /\ args.regenerate_glossary /\ initial_glossary' # << >>) =>
        /\ Range(glossary') \subseteq Range(filtered_glossary')
        /\ saved' = "ok" => Range(LoadGlossary(file')) \subseteq Range(filtered_glossary') ]_vars

\* the accepted terms of the chapter at idx that the cap leaves in the dict
TermsDue == Keys(new_terms) \cap Keys(ExpectedAfter(glossary, new_terms))

\* C28: when the run is interrupted after the translated file of a chapter is
\* written, with the glossary in use, glossary.txt holds the accepted terms of
\* that chapter which the cap leaves in the dict.
C28_DoneChapterTermsPersisted ==
  [][ ( /\ pc \in {"merge", "next"}
        /\ pc' = "interrupted"
        /\ outcome[idx] = "translated"
        /\ idx \in dest'
        /\ ~ args.no_glossary ) =>
        TermsDue \subseteq Keys(LoadGlossary(file')) ]_vars

\* C29: the dict and the glossary text handed to a chapter's call hold at
\* most MAX_GLOSSARY_ENTRIES entries, and so does the dict whenever the loop
\* takes its next chapter.
C29_RenderedWithinCapacity ==
  /\ pc = "write" =>
       /\ Len(existing_glossary) <= MAX_GLOSSARY_ENTRIES
       /\ glossary_text # << >> =>
            Len(glossary_text) <= Len(get_glossary_text(<< >>)) + MAX_GLOSSARY_ENTRIES + 3
  /\ pc = "loop" => Len(glossary) <= MAX_GLOSSARY_ENTRIES

\* C30: when the utility reports, the number of removed lines is the number
\* of entries loaded less the number of entries kept, no term is on two
\* removed lines, and no term on a removed line is in the cleaned glossary.
C30_RemovedCountMatches ==
  pc = "cleanup_report" =>
    /\ Len(removed_terms) = Len(original_glossary) - Len(cleaned)
    /\ \A i, j \in 1..Len(removed_terms) :
         i # j => removed_terms[i].term # removed_terms[j].term
    /\ \A i \in 1..Len(removed_terms) : removed_terms[i].term \notin Keys(cleaned)

====
